---- MODULE Spec2Model ----
(***************************************************************************)
(* A model of the libsm64 Rust wrapper (src/src/lib.rs): the global        *)
(* subsystem handle Sm64, the Mario and DynamicSurface handles minted from *)
(* it, the geometry scratch a Mario owns, and the byte layout of           *)
(* LevelTriangle.  The native library is modelled as an instrumented       *)
(* stand-in: it records the calls it receives and answers them from small  *)
(* sets of possible answers.                                               *)
(***************************************************************************)
EXTENDS Integers, Sequences, FiniteSets, TLC

VARIABLES sm64, mario, surface, native, last, tri, my_c_tri

vars == <<sm64, mario, surface, native, last, tri, my_c_tri>>

(***************************************************************************)
(* Bounds of the model.                                                    *)
(***************************************************************************)
\* Sm64 values constructed successfully in one run
MaxSm64 == 2
\* ids the native Mario pool hands out: 0 .. MaxMarioId
MaxMarioId == 1
\* ids the native surface-object pool hands out: 0 .. MaxObjectId
MaxObjectId == 0
\* SM64_GEO_MAX_TRIANGLES, scaled down (the generated binding says 1024)
SM64_GEO_MAX_TRIANGLES == 2

\* width of the `as u16` cast of lib.rs:521
U16 == 65536

VALID_HASH == "9bef1128717f958171a4afac3ed78ee2bb4e86ce"

(***************************************************************************)
(* ROM byte sources and their SHA-1 digests (sha1::Sha1 ... to_hex()).     *)
(***************************************************************************)
Roms == {"baserom.us.z64", "zeros1024", "empty"}

Sha1Hex(rom) ==
    CASE rom = "baserom.us.z64" -> "9bef1128717f958171a4afac3ed78ee2bb4e86ce"
      [] rom = "zeros1024"      -> "60cacbf3d72e1e7834203da608037b1bf83b40e8"
      [] rom = "empty"          -> "da39a3ee5e6b4b0d3255bfef95601890afd80709"

(***************************************************************************)
(* Value types that cross the boundary by reinterpretation.                *)
(***************************************************************************)
\* #[repr(u16)] enum Terrain: the tag of each variant
Terrain ==
    [Grass |-> 0, Stone |-> 1, Snow |-> 2, Sand |-> 3,
     Spooky |-> 4, Water |-> 5, Slide |-> 6, Mask |-> 7]

TerrainNames == DOMAIN Terrain

\* #[repr(u16)] enum Surface: the discriminants of its 147 variants
Surface ==
    (0..1) \cup (4..5) \cup (9..11) \cup (13..14) \cup (18..22) \cup (26..30)
    \cup (33..42) \cup (44..48) \cup (50..56) \cup (101..102) \cup (104..105)
    \cup (110..112) \cup (114..123) \cup (166..253) \cup {255}

Point3(x, y, z) == [x |-> x, y |-> y, z |-> z]

\* struct LevelTriangle { kind, force, terrain, vertices }
LevelTriangle(kind, force, terrain, v0, v1, v2) ==
    [kind |-> kind, force |-> force, terrain |-> terrain,
     vertices |-> <<v0, v1, v2>>]

\* a 16-bit value as two bytes of memory, low byte first; a signed value is
\* stored in two's complement
Bytes16(v) ==
    LET w == (v + U16) % U16 IN <<w % 256, w \div 256>>

\* #[repr(C)] Point3<i16>: x, y, z in declaration order
Point3Bytes(p) == Bytes16(p.x) \o Bytes16(p.y) \o Bytes16(p.z)

\* a mis-ordered layout: force stored ahead of the kind tag
LevelTriangleBytesForceFirst(t) ==
    Bytes16(t.force) \o Bytes16(t.kind) \o Bytes16(Terrain[t.terrain])
    \o Point3Bytes(t.vertices[1]) \o Point3Bytes(t.vertices[2])
    \o Point3Bytes(t.vertices[3])

\* #[repr(C)] LevelTriangle in memory: kind, force, terrain, vertices, every
\* field 2-aligned, so no padding
LevelTriangleBytes(t) ==
    Bytes16(t.kind) \o Bytes16(t.force) \o Bytes16(Terrain[t.terrain])
    \o Point3Bytes(t.vertices[1]) \o Point3Bytes(t.vertices[2])
    \o Point3Bytes(t.vertices[3])

\* reading 16 bits at word index k (0-based) of a byte sequence
U16At(bytes, k) == bytes[2 * k + 1] + 256 * bytes[2 * k + 2]

I16At(bytes, k) ==
    LET w == U16At(bytes, k) IN IF w >= U16 \div 2 THEN w - U16 ELSE w

\* the native surface record: type, force, terrain, vertices[3][3], 16 bits each
SizeOfSM64Surface == 2 * (3 + 9)

SM64Surface(bytes) ==
    [type_    |-> I16At(bytes, 0),
     force    |-> I16At(bytes, 1),
     terrain  |-> U16At(bytes, 2),
     vertices |-> [i \in 1..3 |->
                     [j \in 1..3 |-> I16At(bytes, 3 + 3 * (i - 1) + (j - 1))]]]

\* std::mem::transmute::<LevelTriangle, SM64Surface>
Transmute(t) == SM64Surface(LevelTriangleBytes(t))

\* geometry.as_ptr() as *const SM64Surface, read by the native side for
\* `count` records
SurfacesAt(geometry, count) ==
    [k \in 1..count |-> Transmute(geometry[k])]

(***************************************************************************)
(* Slices and iterator adaptors, as the standard library computes them.    *)
(***************************************************************************)
Min(a, b) == IF a <= b THEN a ELSE b

\* iter.zip(other): pairs up to the shorter side
Zip(a, b) == [i \in 1..Min(Len(a), Len(b)) |-> <<a[i], b[i]>>]

\* iter.take(n)
Take(s, n) == SubSeq(s, 1, Min(n, Len(s)))

\* slice.chunks_exact(k): whole chunks only, the remainder is left out
ChunksExact(s, k) ==
    [c \in 1..(Len(s) \div k) |-> SubSeq(s, k * (c - 1) + 1, k * c)]

\* &s[0..hi]: a panic when hi is past the end
SliceTo(s, hi) ==
    IF hi > Len(s)
    THEN [panic |-> TRUE, slice |-> <<>>]
    ELSE [panic |-> FALSE, slice |-> SubSeq(s, 1, hi)]

(***************************************************************************)
(* MarioGeometry: four parallel scratch arrays and the live triangle count.*)
(* An array entry (a Point3<f32>, Color or Point2<f32>) is one abstract    *)
(* value; 0 is Default::default().                                         *)
(***************************************************************************)
MarioGeometry_new ==
    [position      |-> [i \in 1..(SM64_GEO_MAX_TRIANGLES * 3) |-> 0],
     normal        |-> [i \in 1..(SM64_GEO_MAX_TRIANGLES * 3) |-> 0],
     color         |-> [i \in 1..(SM64_GEO_MAX_TRIANGLES * 3) |-> 0],
     uv            |-> [i \in 1..(SM64_GEO_MAX_TRIANGLES * 3) |-> 0],
     num_triangles |-> 0]

MarioVertex(position, normal, color, uv) ==
    [position |-> position, normal |-> normal, color |-> color, uv |-> uv]

\* MarioGeometry::vertcies
vertcies(geo) ==
    LET zipped == Take(Zip(Zip(Zip(geo.position, geo.normal), geo.color), geo.uv),
                       geo.num_triangles * 3)
    IN  [i \in 1..Len(zipped) |->
            MarioVertex(zipped[i][1][1][1], zipped[i][1][1][2],
                        zipped[i][1][2], zipped[i][2])]

\* a version that takes num_triangles * 3 chunks, as vertcies does for vertices
trianglesTakeVertexCount(geo) ==
    LET zipped == Take(Zip(Zip(Zip(ChunksExact(geo.position, 3),
                                   ChunksExact(geo.normal, 3)),
                               ChunksExact(geo.color, 3)),
                           ChunksExact(geo.uv, 3)),
                       geo.num_triangles * 3)
    IN  [i \in 1..Len(zipped) |->
            LET positions == zipped[i][1][1][1]
                normals   == zipped[i][1][1][2]
                colors    == zipped[i][1][2]
                uvs       == zipped[i][2]
            IN  <<MarioVertex(positions[1], normals[1], colors[1], uvs[1]),
                  MarioVertex(positions[2], normals[2], colors[2], uvs[2]),
                  MarioVertex(positions[3], normals[3], colors[3], uvs[3])>>]

\* MarioGeometry::triangles
triangles(geo) ==
    LET zipped == Take(Zip(Zip(Zip(ChunksExact(geo.position, 3),
                                   ChunksExact(geo.normal, 3)),
                               ChunksExact(geo.color, 3)),
                           ChunksExact(geo.uv, 3)),
                       geo.num_triangles)
    IN  [i \in 1..Len(zipped) |->
            LET positions == zipped[i][1][1][1]
                normals   == zipped[i][1][1][2]
                colors    == zipped[i][1][2]
                uvs       == zipped[i][2]
            IN  <<MarioVertex(positions[1], normals[1], colors[1], uvs[1]),
                  MarioVertex(positions[2], normals[2], colors[2], uvs[2]),
                  MarioVertex(positions[3], normals[3], colors[3], uvs[3])>>]

\* an accessor that hands out the whole scratch array
positionsWholeArray(geo) == SliceTo(geo.position, Len(geo.position))

\* MarioGeometry::positions / normals / colors / uvs
positions(geo) == SliceTo(geo.position, geo.num_triangles * 3)
normals(geo)   == SliceTo(geo.normal, geo.num_triangles * 3)
colors(geo)    == SliceTo(geo.color, geo.num_triangles * 3)
uvs(geo)       == SliceTo(geo.uv, geo.num_triangles * 3)

\* impl From<&mut MarioGeometry> for SM64MarioGeometryBuffers: the four
\* pointers alias the scratch arrays; the count is the u16 cast of the array
\* length, divided by 3
GeometryBuffers(geo) ==
    [position         |-> geo.position,
     normal           |-> geo.normal,
     color            |-> geo.color,
     uv               |-> geo.uv,
     numTrianglesUsed |-> (Len(geo.position) % U16) \div 3]

(***************************************************************************)
(* Small records converted field by field on each call.                    *)
(***************************************************************************)
SurfaceTransform(position, euler_rotation) ==
    [position |-> position, euler_rotation |-> euler_rotation]

\* impl From<SurfaceTransform> for SM64ObjectTransform
ObjectTransform(transform) ==
    [position      |-> <<transform.position.x, transform.position.y,
                         transform.position.z>>,
     eulerRotation |-> <<transform.euler_rotation.x, transform.euler_rotation.y,
                         transform.euler_rotation.z>>]

\* impl From<MarioInput> for SM64MarioInputs: bool as u8
MarioInputs(input) ==
    [camLookX |-> input.cam_look_x,
     camLookZ |-> input.cam_look_z,
     stickX   |-> input.stick_x,
     stickY   |-> input.stick_y,
     buttonA  |-> IF input.button_a THEN 1 ELSE 0,
     buttonB  |-> IF input.button_b THEN 1 ELSE 0,
     buttonZ  |-> IF input.button_z THEN 1 ELSE 0]

\* impl From<SM64MarioState> for MarioState
MarioState(state) ==
    [position   |-> Point3(state.position[1], state.position[2], state.position[3]),
     velocity   |-> Point3(state.velocity[1], state.velocity[2], state.velocity[3]),
     face_angle |-> state.faceAngle,
     health     |-> state.health]

(***************************************************************************)
(* Inputs the client supplies.  Floats are abstract numbers.               *)
(***************************************************************************)
TriA == LevelTriangle(0, 0, "Grass",
                      Point3(10, -1, 10), Point3(10, -1, -10), Point3(-10, -1, -10))
TriB == LevelTriangle(46, 333, "Snow",
                      Point3(1, 2, 3), Point3(4, 5, 6), Point3(7, 8, 9))

Levels == {<< >>, <<TriA>>, <<TriA, TriB>>}

\* the triangles of a moving platform
Platforms == {<<TriB>>}

SpawnPoints == {<<1, 2, 3>>}

Transforms ==
    {SurfaceTransform(Point3(0, 0, 0), Point3(0, 0, 0)),
     SurfaceTransform(Point3(10, 0, 0), Point3(0, 90, 0))}

DefaultInput ==
    [cam_look_x |-> 0, cam_look_z |-> 0, stick_x |-> 0, stick_y |-> 0,
     button_a |-> FALSE, button_b |-> FALSE, button_z |-> FALSE]

Inputs == {[DefaultInput EXCEPT !.stick_x = 1, !.button_a = TRUE]}

(***************************************************************************)
(* The native library, as an instrumented stand-in.  A call is a record    *)
(* naming the function, its arguments and (for the two create functions)   *)
(* the id it answers.                                                      *)
(***************************************************************************)
NativeInit ==
    [state      |-> "Uninitialized",
     inits      |-> 0,
     terminates |-> 0,
     marios     |-> {},
     objects    |-> {},
     static     |-> << >>]

NativeCall(nat, c) ==
    CASE c.fn = "sm64_global_init" ->
            [nat EXCEPT !.state = "Live", !.inits = @ + 1]
      [] c.fn = "sm64_global_terminate" ->
            [nat EXCEPT !.state = "Terminated", !.terminates = @ + 1]
      [] c.fn = "sm64_static_surfaces_load" ->
            [nat EXCEPT !.static = SurfacesAt(c.surfaceArray, c.numSurfaces)]
      [] c.fn = "sm64_mario_create" ->
            [nat EXCEPT !.marios = IF c.ret >= 0 THEN @ \cup {c.ret} ELSE @]
      [] c.fn = "sm64_mario_delete" ->
            [nat EXCEPT !.marios = @ \ {c.id}]
      [] c.fn = "sm64_surface_object_create" ->
            [nat EXCEPT !.objects = @ \cup {c.ret}]
      [] c.fn = "sm64_surface_object_delete" ->
            [nat EXCEPT !.objects = @ \ {c.id}]
      [] OTHER -> nat

RECURSIVE NativeCalls(_, _)
NativeCalls(nat, calls) ==
    IF calls = << >> THEN nat
    ELSE NativeCalls(NativeCall(nat, Head(calls)), Tail(calls))

\* how many of `calls` are calls of `fn`
RECURSIVE CountCalls(_, _)
CountCalls(calls, fn) ==
    IF calls = << >> THEN 0
    ELSE (IF Head(calls).fn = fn THEN 1 ELSE 0) + CountCalls(Tail(calls), fn)

\* sm64_mario_create answers a negative id when no surface lies beneath the
\* spawn point (always so when no geometry is loaded), else an id of its
\* pool that is not in use
MarioCreateAnswers(nat) ==
    {-1} \cup (IF nat.static = << >> /\ nat.objects = {}
               THEN {}
               ELSE (0..MaxMarioId) \ nat.marios)

\* sm64_surface_object_create answers an id of its pool that is not in use
SurfaceObjectCreateAnswers(nat) == (0..MaxObjectId) \ nat.objects

\* sm64_mario_tick writes at most as many triangles as the caller accepts
MarioTickAnswers(buffers) == 0..buffers.numTrianglesUsed

\* the animation frames the stand-in can render
Frames == {1, 2}

\* what sm64_mario_tick writes into entry i of scratch array a for frame f
Written(a, f, i) == a * 1000 + f * 100 + i

\* sm64_mario_tick: entries of the first n triangles are written, the rest
\* are left as they were, and the count field holds n on return
NativeMarioTick(buffers, n, f) ==
    [position |-> [i \in 1..Len(buffers.position) |->
                     IF i <= 3 * n THEN Written(1, f, i) ELSE buffers.position[i]],
     normal   |-> [i \in 1..Len(buffers.normal) |->
                     IF i <= 3 * n THEN Written(2, f, i) ELSE buffers.normal[i]],
     color    |-> [i \in 1..Len(buffers.color) |->
                     IF i <= 3 * n THEN Written(3, f, i) ELSE buffers.color[i]],
     uv       |-> [i \in 1..Len(buffers.uv) |->
                     IF i <= 3 * n THEN Written(4, f, i) ELSE buffers.uv[i]],
     numTrianglesUsed |-> n]

\* the state record sm64_mario_tick fills in
NativeMarioState ==
    [position |-> <<0, 0, 0>>, velocity |-> <<0, 0, 0>>,
     faceAngle |-> 0, health |-> 2176]

(***************************************************************************)
(* The wrapper's operations.  Each yields the native calls it issues, in   *)
(* order, and its result.                                                  *)
(***************************************************************************)
Ok == [ok |-> TRUE, err |-> "", hash |-> ""]
Err(err, hash) == [ok |-> FALSE, err |-> err, hash |-> hash]

\* a constructor that initialises the library before checking the digest
Sm64_newInitFirst(rom, io_error) ==
    IF io_error
    THEN [calls |-> << >>, result |-> Err("Io", "")]
    ELSE LET rom_hash == Sha1Hex(rom) IN
         IF rom_hash # VALID_HASH
         THEN [calls  |-> <<[fn |-> "sm64_global_init"]>>,
               result |-> Err("InvalidRom", rom_hash)]
         ELSE [calls  |-> <<[fn |-> "sm64_global_init"]>>,
               result |-> Ok]

\* Sm64::new: read everything, check the digest, then sm64_global_init
Sm64_new(rom, io_error) ==
    IF io_error
    THEN [calls |-> << >>, result |-> Err("Io", "")]
    ELSE LET rom_hash == Sha1Hex(rom) IN
         IF rom_hash # VALID_HASH
         THEN [calls  |-> << >>,
               result |-> Err("InvalidRom", rom_hash)]
         ELSE [calls  |-> <<[fn |-> "sm64_global_init"]>>,
               result |-> Ok]

\* a drop that leaves the library initialised
Sm64_dropNothing == << >>

\* impl Drop for Sm64
Sm64_drop == <<[fn |-> "sm64_global_terminate"]>>

\* a load that passes a length one short of the slice's
Sm64_load_level_geometryOneShort(geometry) ==
    <<[fn           |-> "sm64_static_surfaces_load",
       surfaceArray |-> geometry,
       numSurfaces  |-> IF Len(geometry) > 0 THEN Len(geometry) - 1 ELSE 0]>>

\* Sm64::load_level_geometry: the slice's pointer and `geometry.len() as u32`
\* (the cast keeps every length below 2^32)
Sm64_load_level_geometry(geometry) ==
    <<[fn           |-> "sm64_static_surfaces_load",
       surfaceArray |-> geometry,
       numSurfaces  |-> Len(geometry)]>>

\* Mario::new
Mario_new(ctx, id) ==
    [id |-> id, geometry |-> MarioGeometry_new, ctx |-> ctx]

\* a create_mario that takes id 0 for a failure too
Sm64_create_marioZeroFails(self, x, y, z, mario_id) ==
    [calls  |-> <<[fn |-> "sm64_mario_create", x |-> x, y |-> y, z |-> z,
                   ret |-> mario_id]>>,
     result |-> IF mario_id <= 0
                THEN [ok |-> FALSE, err |-> "InvalidMarioPosition", value |-> << >>]
                ELSE [ok |-> TRUE, err |-> "", value |-> <<Mario_new(self, mario_id)>>]]

\* Sm64::create_mario; mario_id is what sm64_mario_create answers
Sm64_create_mario(self, x, y, z, mario_id) ==
    [calls  |-> <<[fn |-> "sm64_mario_create", x |-> x, y |-> y, z |-> z,
                   ret |-> mario_id]>>,
     result |-> IF mario_id < 0
                THEN [ok |-> FALSE, err |-> "InvalidMarioPosition", value |-> << >>]
                ELSE [ok |-> TRUE, err |-> "", value |-> <<Mario_new(self, mario_id)>>]]

\* DynamicSurface::new
DynamicSurface_new(ctx, id) == [id |-> id, ctx |-> ctx]

\* Sm64::create_dynamic_surface; id is what sm64_surface_object_create answers
Sm64_create_dynamic_surface(self, geometry, transform, id) ==
    [calls  |-> <<[fn           |-> "sm64_surface_object_create",
                   transform    |-> ObjectTransform(transform),
                   surfaceCount |-> Len(geometry),
                   surfaces     |-> geometry,
                   ret          |-> id]>>,
     result |-> [ok |-> TRUE, err |-> "", value |-> <<DynamicSurface_new(self, id)>>]]

\* a tick that offers the previous tick's count as the capacity
Mario_tickCallPreviousCount(self, input) ==
    [fn               |-> "sm64_mario_tick",
     id               |-> self.id,
     input            |-> MarioInputs(input),
     numTrianglesUsed |-> self.geometry.num_triangles]

\* Mario::tick, up to the native call: the call as it is issued
Mario_tickCall(self, input) ==
    [fn               |-> "sm64_mario_tick",
     id               |-> self.id,
     input            |-> MarioInputs(input),
     numTrianglesUsed |-> GeometryBuffers(self.geometry).numTrianglesUsed]

\* a tick that cuts the scratch arrays down to what was written
Mario_tickShrinks(self, out) ==
    [self EXCEPT !.geometry =
        [position      |-> SubSeq(out.position, 1, 3 * out.numTrianglesUsed),
         normal        |-> SubSeq(out.normal, 1, 3 * out.numTrianglesUsed),
         color         |-> SubSeq(out.color, 1, 3 * out.numTrianglesUsed),
         uv            |-> SubSeq(out.uv, 1, 3 * out.numTrianglesUsed),
         num_triangles |-> out.numTrianglesUsed]]

\* Mario::tick, after the native call: the scratch arrays hold what the
\* native side wrote through the pointers, the count is read back
Mario_tick(self, out) ==
    [self EXCEPT !.geometry =
        [position      |-> out.position,
         normal        |-> out.normal,
         color         |-> out.color,
         uv            |-> out.uv,
         num_triangles |-> out.numTrianglesUsed]]

\* a drop that deletes twice
Mario_dropTwice(self) ==
    <<[fn |-> "sm64_mario_delete", id |-> self.id],
      [fn |-> "sm64_mario_delete", id |-> self.id]>>

\* impl Drop for Mario
Mario_drop(self) == <<[fn |-> "sm64_mario_delete", id |-> self.id]>>

\* a transform that also moves a second time
DynamicSurface_transformTwice(self, transform) ==
    <<[fn        |-> "sm64_surface_object_move",
       id        |-> self.id,
       transform |-> ObjectTransform(transform)],
      [fn        |-> "sm64_surface_object_move",
       id        |-> self.id,
       transform |-> ObjectTransform(transform)]>>

\* DynamicSurface::transform
DynamicSurface_transform(self, transform) ==
    <<[fn        |-> "sm64_surface_object_move",
       id        |-> self.id,
       transform |-> ObjectTransform(transform)]>>

\* impl Drop for DynamicSurface
DynamicSurface_drop(self) ==
    <<[fn |-> "sm64_surface_object_delete", id |-> self.id]>>

(***************************************************************************)
(* The state.  sm64[s] is the s-th Sm64 the client constructs: "unborn",   *)
(* then "live", then "dropped".  mario[k] and surface[k] are the live      *)
(* handles, filed under the id the native create answered for them; a      *)
(* handle that does not exist (not minted yet, or dropped) is absent.      *)
(* `last` is the most recent operation: its kind, the slot it acted on,    *)
(* the native calls it issued and its result.                              *)
(***************************************************************************)
Sm64Slots == 1..MaxSm64
MarioIds == 0..MaxMarioId
ObjectIds == 0..MaxObjectId

NoMario == [live |-> FALSE, self |-> [id |-> -1, geometry |-> MarioGeometry_new, ctx |-> 0]]
NoSurface == [live |-> FALSE, self |-> [id |-> 0, ctx |-> 0]]

\* the first Sm64 slot that is still unborn; 0 when there is none
NextSm64 ==
    IF \E s \in Sm64Slots : sm64[s] = "unborn"
    THEN CHOOSE s \in Sm64Slots :
            sm64[s] = "unborn" /\ \A j \in Sm64Slots : j < s => sm64[j] # "unborn"
    ELSE 0

\* handles that hold no reference to the Sm64
NoBorrow(s) == {}

\* the live handles that hold `ctx: &'ctx Sm64` to sm64[s]: while there is
\* one, sm64[s] cannot be moved or dropped
Borrowers(s) ==
    {<<"mario", k>> : k \in {j \in MarioIds :
                        mario[j].live /\ mario[j].self.ctx = s}}
    \cup {<<"surface", k>> : k \in {j \in ObjectIds :
                        surface[j].live /\ surface[j].self.ctx = s}}

\* the transmuted record of the layout test, before the test has run
NotTransmuted == [done |-> FALSE, size |-> 0, surface |-> Transmute(TriA)]

Init ==
    /\ sm64 = [s \in Sm64Slots |-> "unborn"]
    /\ mario = [k \in MarioIds |-> NoMario]
    /\ surface = [k \in ObjectIds |-> NoSurface]
    /\ native = NativeInit
    /\ last = [op |-> "none", h |-> 0, arg |-> 0, calls |-> << >>, result |-> Ok]
    /\ tri = TriA
    /\ my_c_tri = NotTransmuted

\* let sm64 = Sm64::new(rom)
New(rom, io_error) ==
    /\ NextSm64 # 0
    /\ LET r == Sm64_new(rom, io_error) IN
        /\ native' = NativeCalls(native, r.calls)
        /\ sm64' = IF r.result.ok THEN [sm64 EXCEPT ![NextSm64] = "live"] ELSE sm64
        /\ last' = [op |-> "new", h |-> NextSm64,
                    arg |-> [rom |-> rom, io_error |-> io_error],
                    calls |-> r.calls, result |-> r.result]
    /\ UNCHANGED <<mario, surface, tri, my_c_tri>>

\* drop(sm64): possible once no handle borrows it
DropSm64(s) ==
    /\ sm64[s] = "live"
    /\ Borrowers(s) = {}
    /\ native' = NativeCalls(native, Sm64_drop)
    /\ sm64' = [sm64 EXCEPT ![s] = "dropped"]
    /\ last' = [op |-> "drop_sm64", h |-> s, arg |-> 0, calls |-> Sm64_drop,
                result |-> Ok]
    /\ UNCHANGED <<mario, surface, tri, my_c_tri>>

\* sm64.load_level_geometry(&geometry); the record of the operation keeps,
\* beside the unit result, the static set the library held before the call
LoadLevelGeometry(s, geometry) ==
    /\ sm64[s] = "live"
    /\ LET calls == Sm64_load_level_geometry(geometry) IN
        /\ native' = NativeCalls(native, calls)
        /\ last' = [op |-> "load_level_geometry", h |-> s, arg |-> geometry,
                    calls |-> calls,
                    result |-> [ok |-> TRUE, before |-> native.static]]
    /\ UNCHANGED <<sm64, mario, surface, tri, my_c_tri>>

\* sm64.create_mario(x, y, z); mario_id is what the native side answers
CreateMario(s, p, mario_id) ==
    /\ sm64[s] = "live"
    /\ mario_id \in MarioCreateAnswers(native)
    /\ LET r == Sm64_create_mario(s, p[1], p[2], p[3], mario_id) IN
        /\ native' = NativeCalls(native, r.calls)
        /\ mario' = IF r.result.ok
                    THEN [mario EXCEPT ![mario_id] =
                            [live |-> TRUE, self |-> r.result.value[1]]]
                    ELSE mario
        /\ last' = [op |-> "create_mario", h |-> s, arg |-> p, calls |-> r.calls,
                    result |-> r.result]
    /\ UNCHANGED <<sm64, surface, tri, my_c_tri>>

\* sm64.create_dynamic_surface(&geometry, transform); id is what the native
\* side answers
CreateDynamicSurface(s, geometry, transform, id) ==
    /\ sm64[s] = "live"
    /\ id \in SurfaceObjectCreateAnswers(native)
    /\ LET r == Sm64_create_dynamic_surface(s, geometry, transform, id) IN
        /\ native' = NativeCalls(native, r.calls)
        /\ surface' = [surface EXCEPT ![id] =
                          [live |-> TRUE, self |-> r.result.value[1]]]
        /\ last' = [op |-> "create_dynamic_surface", h |-> s,
                    arg |-> [geometry |-> geometry, transform |-> transform],
                    calls |-> r.calls, result |-> r.result]
    /\ UNCHANGED <<sm64, mario, tri, my_c_tri>>

\* mario.tick(input); n and f are what the native side writes.  The record
\* of the operation keeps, beside the returned state, the count the native
\* side left in the buffers record (tris) and the count the handle held
\* before the call (before)
Tick(k, input, n, f) ==
    /\ mario[k].live
    /\ LET self == mario[k].self
           call == Mario_tickCall(self, input)
           out  == NativeMarioTick(GeometryBuffers(self.geometry), n, f)
       IN
        /\ n \in MarioTickAnswers(call)
        /\ native' = NativeCalls(native, <<call>>)
        /\ mario' = [mario EXCEPT ![k].self = Mario_tick(self, out)]
        /\ last' = [op |-> "tick", h |-> k, arg |-> input, calls |-> <<call>>,
                    result |-> [ok     |-> TRUE,
                                state  |-> MarioState(NativeMarioState),
                                tris   |-> out.numTrianglesUsed,
                                before |-> self.geometry.num_triangles]]
    /\ UNCHANGED <<sm64, surface, tri, my_c_tri>>

\* mario.geometry().triangles().collect()
Triangles(k) ==
    /\ mario[k].live
    /\ last' = [op |-> "triangles", h |-> k, arg |-> 0, calls |-> << >>,
                result |-> [ok |-> TRUE, items |-> triangles(mario[k].self.geometry)]]
    /\ UNCHANGED <<sm64, mario, surface, native, tri, my_c_tri>>

\* drop(mario)
DropMario(k) ==
    /\ mario[k].live
    /\ LET calls == Mario_drop(mario[k].self) IN
        /\ native' = NativeCalls(native, calls)
        /\ mario' = [mario EXCEPT ![k] = NoMario]
        /\ last' = [op |-> "drop_mario", h |-> k, arg |-> mario[k].self.ctx,
                    calls |-> calls, result |-> Ok]
    /\ UNCHANGED <<sm64, surface, tri, my_c_tri>>

\* surface.transform(transform)
Transform(k, transform) ==
    /\ surface[k].live
    /\ LET calls == DynamicSurface_transform(surface[k].self, transform) IN
        /\ native' = NativeCalls(native, calls)
        /\ last' = [op |-> "transform", h |-> k, arg |-> transform, calls |-> calls,
                    result |-> Ok]
    /\ UNCHANGED <<sm64, mario, surface, tri, my_c_tri>>

\* drop(surface)
DropSurface(k) ==
    /\ surface[k].live
    /\ LET calls == DynamicSurface_drop(surface[k].self) IN
        /\ native' = NativeCalls(native, calls)
        /\ surface' = [surface EXCEPT ![k] = NoSurface]
        /\ last' = [op |-> "drop_surface", h |-> k, arg |-> surface[k].self.ctx,
                    calls |-> calls, result |-> Ok]
    /\ UNCHANGED <<sm64, mario, tri, my_c_tri>>

\* the native tick answers drawn in Spec: no triangle is written, so the
\* scratch of a handle stays as constructed; SpecGeo draws every answer
LifeTickCounts == {0}
LifeFrames == {1}

Next ==
    \/ \E rom \in Roms, io_error \in BOOLEAN : New(rom, io_error)
    \/ \E s \in Sm64Slots : DropSm64(s)
    \/ \E s \in Sm64Slots, geometry \in Levels : LoadLevelGeometry(s, geometry)
    \/ \E s \in Sm64Slots, p \in SpawnPoints, mario_id \in {-1} \cup MarioIds :
          CreateMario(s, p, mario_id)
    \/ \E s \in Sm64Slots, geometry \in Platforms, transform \in Transforms,
          id \in ObjectIds : CreateDynamicSurface(s, geometry, transform, id)
    \/ \E k \in MarioIds, input \in Inputs, n \in LifeTickCounts,
          f \in LifeFrames :
          Tick(k, input, n, f)
    \/ \E k \in MarioIds : DropMario(k)
    \/ \E k \in ObjectIds, transform \in Transforms : Transform(k, transform)
    \/ \E k \in ObjectIds : DropSurface(k)

\* Every operation on the Sm64 and its handles, in any order ownership and
\* borrowing permit.
Spec == Init /\ [][Next]_vars

(***************************************************************************)
(* SpecGeo: one Sm64, up to two Marios, and every answer the native tick   *)
(* can give, so that the scratch arrays go through all their contents.     *)
(***************************************************************************)
GeoMarioIds == {0, 1}

\* the level and the transform drawn in SpecGeo: one of each is enough to
\* have Marios minted and a platform moved beside them
GeoLevels == {<<TriA>>}
GeoTransforms == {CHOOSE transform \in Transforms : TRUE}

NextGeo ==
    \/ \E rom \in Roms, io_error \in BOOLEAN : NextSm64 = 1 /\ New(rom, io_error)
    \/ \E s \in Sm64Slots : DropSm64(s)
    \/ \E s \in Sm64Slots, geometry \in GeoLevels : LoadLevelGeometry(s, geometry)
    \/ \E s \in Sm64Slots, p \in SpawnPoints, mario_id \in {-1} \cup GeoMarioIds :
          CreateMario(s, p, mario_id)
    \/ \E s \in Sm64Slots, geometry \in Platforms, transform \in GeoTransforms,
          id \in {0} : CreateDynamicSurface(s, geometry, transform, id)
    \/ \E k \in GeoMarioIds, input \in Inputs, n \in 0..SM64_GEO_MAX_TRIANGLES,
          f \in Frames : Tick(k, input, n, f)
    \/ \E k \in GeoMarioIds : Triangles(k)
    \/ \E k \in GeoMarioIds : DropMario(k)
    \/ \E k \in {0}, transform \in GeoTransforms : Transform(k, transform)
    \/ \E k \in {0} : DropSurface(k)

SpecGeo == Init /\ [][NextGeo]_vars

(***************************************************************************)
(* SpecRepr: the layout test correct_repr, over many triangles.            *)
(***************************************************************************)
Forces == {-32768, -1, 0, 333, 32767}

VertexSets ==
    {<<Point3(1, 2, 3), Point3(4, 5, 6), Point3(7, 8, 9)>>,
     <<Point3(10, -1, 10), Point3(10, -1, -10), Point3(-10, -1, -10)>>,
     <<Point3(-32768, 32767, -1), Point3(0, 256, -256), Point3(255, -255, 1)>>}

InitRepr ==
    /\ sm64 = [s \in Sm64Slots |-> "unborn"]
    /\ mario = [k \in MarioIds |-> NoMario]
    /\ surface = [k \in ObjectIds |-> NoSurface]
    /\ native = NativeInit
    /\ last = [op |-> "none", h |-> 0, arg |-> 0, calls |-> << >>, result |-> Ok]
    /\ \E kind \in Surface, force \in Forces, terrain \in TerrainNames,
          v \in VertexSets :
            tri = LevelTriangle(kind, force, terrain, v[1], v[2], v[3])
    /\ my_c_tri = NotTransmuted

\* fn correct_repr: the size of the record and its bytes read as SM64Surface
CorrectRepr ==
    /\ ~my_c_tri.done
    /\ my_c_tri' = [done    |-> TRUE,
                    size    |-> Len(LevelTriangleBytes(tri)),
                    surface |-> Transmute(tri)]
    /\ UNCHANGED <<sm64, mario, surface, native, last, tri>>

NextRepr == CorrectRepr

SpecRepr == InitRepr /\ [][NextRepr]_vars

(***************************************************************************)
(* What the claims speak of.                                               *)
(***************************************************************************)
LiveSm64 == {s \in Sm64Slots : sm64[s] = "live"}
DroppedSm64 == {s \in Sm64Slots : sm64[s] = "dropped"}
LiveMarios == {k \in MarioIds : mario[k].live}
LiveSurfaces == {k \in ObjectIds : surface[k].live}

(***************************************************************************)
(* C1.  At most one Sm64 is alive at any time: a Sm64::new made while an   *)
(* earlier Sm64 is alive fails, so sm64_global_init is never called a      *)
(* second time without a sm64_global_terminate in between.                 *)
(***************************************************************************)
C1_AtMostOneSm64 ==
    /\ Cardinality(LiveSm64) <= 1
    /\ native.inits - native.terminates <= 1

(***************************************************************************)
(* C2.  Sm64::new on a byte source whose SHA-1 digest is not VALID_HASH    *)
(* returns Err(InvalidRom(h)) with h the digest of the bytes read, yields  *)
(* no Sm64 and does not call sm64_global_init.                             *)
(***************************************************************************)
C2_InvalidRom ==
    (/\ last.op = "new"
     /\ ~last.arg.io_error
     /\ Sha1Hex(last.arg.rom) # VALID_HASH)
    => /\ last.result = [ok |-> FALSE, err |-> "InvalidRom",
                         hash |-> Sha1Hex(last.arg.rom)]
       /\ last.result.hash # VALID_HASH
       /\ sm64[last.h] = "unborn"
       /\ last.calls = << >>
       /\ native.inits = Cardinality(LiveSm64) + Cardinality(DroppedSm64)

C2_Witness ==
    /\ last.op = "new"
    /\ last.result.err = "InvalidRom"
    /\ last.result.hash = "60cacbf3d72e1e7834203da608037b1bf83b40e8"
    /\ native.inits = 1

(***************************************************************************)
(* C3.  Every Sm64 that was constructed calls sm64_global_terminate once,  *)
(* at its drop; a construction that fails calls none: the number of        *)
(* teardown calls is the number of Sm64 values dropped.                    *)
(***************************************************************************)
C3_TeardownOncePerDrop ==
    /\ native.terminates = Cardinality(DroppedSm64)
    /\ last.op = "drop_sm64" => last.calls = <<[fn |-> "sm64_global_terminate"]>>
    /\ last.op # "drop_sm64" => CountCalls(last.calls, "sm64_global_terminate") = 0

C3_Witness ==
    /\ last.op = "new"
    /\ ~last.result.ok
    /\ Cardinality(DroppedSm64) = 1

(***************************************************************************)
(* C4.  A Mario handle holds the id sm64_mario_create answered for it, and *)
(* sm64_mario_delete is called once, at its drop, with that id; so the ids *)
(* created and not yet deleted are the ids the live handles hold.          *)
(***************************************************************************)
C4_MarioDeleteOnce ==
    /\ \A k \in LiveMarios : mario[k].self.id = k
    /\ native.marios = {mario[k].self.id : k \in LiveMarios}
    /\ last.op = "drop_mario" =>
          /\ last.calls = <<[fn |-> "sm64_mario_delete", id |-> last.h]>>
          /\ ~mario[last.h].live
    /\ last.op # "drop_mario" => CountCalls(last.calls, "sm64_mario_delete") = 0

C4_Witness ==
    /\ last.op = "drop_mario"
    /\ last.h = 0
    /\ LiveMarios = {1}
    /\ native.marios = {1}

(***************************************************************************)
(* C5.  No handle outlives the Sm64 it was minted from: a handle is        *)
(* deleted before the teardown that the drop of its Sm64 issues, and no    *)
(* tick or transform is issued on a handle after that teardown.            *)
(***************************************************************************)
C5_HandlesWithinSm64 ==
    /\ \A k \in LiveMarios : sm64[mario[k].self.ctx] = "live"
    /\ \A k \in LiveSurfaces : sm64[surface[k].self.ctx] = "live"
    /\ last.op = "tick" => sm64[mario[last.h].self.ctx] = "live"
    /\ last.op = "transform" => sm64[surface[last.h].self.ctx] = "live"
    /\ last.op \in {"drop_mario", "drop_surface"} => sm64[last.arg] = "live"

C5_Witness ==
    /\ last.op = "tick"
    /\ sm64[1] = "dropped"
    /\ mario[last.h].self.ctx = 2
    /\ LiveSurfaces # {}

(***************************************************************************)
(* C6.  create_mario calls sm64_mario_create once.  A negative answer      *)
(* gives Err(InvalidMarioPosition), no handle and no sm64_mario_delete; an *)
(* answer >= 0, 0 included, gives a handle holding that id.  With no       *)
(* geometry loaded the answer is negative and create_mario fails.          *)
(***************************************************************************)
C6_CreateMario ==
    last.op = "create_mario" =>
       /\ Len(last.calls) = 1
       /\ last.calls[1].fn = "sm64_mario_create"
       /\ <<last.calls[1].x, last.calls[1].y, last.calls[1].z>> = last.arg
       /\ LET id == last.calls[1].ret IN
           /\ id < 0 =>
                 /\ ~last.result.ok
                 /\ last.result.err = "InvalidMarioPosition"
                 /\ last.result.value = << >>
                 /\ native.marios = LiveMarios
           /\ id >= 0 =>
                 /\ last.result.ok
                 /\ Len(last.result.value) = 1
                 /\ last.result.value[1].id = id
                 /\ last.result.value[1].ctx = last.h
                 /\ mario[id].live
                 /\ mario[id].self.id = id
       /\ (native.static = << >> /\ native.objects = {}) => ~last.result.ok

C6_Witness ==
    /\ last.op = "create_mario"
    /\ last.calls[1].ret = 0
    /\ last.result.ok
    /\ mario[0].live

(***************************************************************************)
(* C7.  For every Mario handle, before its first tick and after any number *)
(* of ticks, the live triangle count is at most SM64_GEO_MAX_TRIANGLES and *)
(* positions(), normals(), colors() and uvs() are each the first           *)
(* count * 3 entries of their scratch array: none panics, none shows an    *)
(* entry past the count.  A handle just minted has count 0.                *)
(***************************************************************************)
C7_LiveCountBoundsViews ==
    /\ \A k \in LiveMarios :
          LET geo == mario[k].self.geometry
              n   == geo.num_triangles
          IN  /\ n <= SM64_GEO_MAX_TRIANGLES
              /\ n * 3 <= Len(geo.position)
              /\ ~positions(geo).panic /\ Len(positions(geo).slice) = n * 3
              /\ ~normals(geo).panic /\ Len(normals(geo).slice) = n * 3
              /\ ~colors(geo).panic /\ Len(colors(geo).slice) = n * 3
              /\ ~uvs(geo).panic /\ Len(uvs(geo).slice) = n * 3
              /\ \A i \in 1..(n * 3) :
                    /\ positions(geo).slice[i] = geo.position[i]
                    /\ normals(geo).slice[i] = geo.normal[i]
                    /\ colors(geo).slice[i] = geo.color[i]
                    /\ uvs(geo).slice[i] = geo.uv[i]
    /\ (last.op = "create_mario" /\ last.result.ok) =>
          mario[last.calls[1].ret].self.geometry.num_triangles = 0

\* a handle whose last tick wrote one triangle over an earlier tick's two:
\* entries 4..6 of the scratch are stale and lie past the count
C7_Witness ==
    \E k \in LiveMarios :
        /\ mario[k].self.geometry.num_triangles = 1
        /\ mario[k].self.geometry.position[4] # 0
        /\ \E j \in LiveMarios : mario[j].self.geometry.num_triangles = SM64_GEO_MAX_TRIANGLES

(***************************************************************************)
(* C8.  triangles() yields exactly num_triangles triples; the k-th (from   *)
(* 0) is built from entries 3k, 3k+1, 3k+2 of the four arrays, in that     *)
(* order.  The sequence obtained is the one a second call yields: taking   *)
(* it changes neither the arrays nor the count.                            *)
(***************************************************************************)
VertexAt(geo, i) ==
    [position |-> geo.position[i], normal |-> geo.normal[i],
     color |-> geo.color[i], uv |-> geo.uv[i]]

C8_Triangles ==
    /\ \A k \in LiveMarios :
          LET geo == mario[k].self.geometry IN
              /\ Len(triangles(geo)) = geo.num_triangles
              /\ \A t \in 0..(geo.num_triangles - 1) :
                    triangles(geo)[t + 1] =
                        <<VertexAt(geo, 3 * t + 1), VertexAt(geo, 3 * t + 2),
                          VertexAt(geo, 3 * t + 3)>>
    /\ last.op = "triangles" =>
          /\ last.result.items = triangles(mario[last.h].self.geometry)
          /\ Len(last.result.items) = mario[last.h].self.geometry.num_triangles

C8_Witness ==
    /\ last.op = "triangles"
    /\ Len(last.result.items) = 2
    /\ last.result.items[2][1].position # last.result.items[1][1].position
    /\ mario[last.h].self.geometry.num_triangles = 2

(***************************************************************************)
(* C9.  transform(t) issues one sm64_surface_object_move with the handle's *)
(* id and t (position and euler rotation copied component-wise), while the *)
(* object is not yet deleted; the drop issues one                          *)
(* sm64_surface_object_delete with that id; nothing else moves or deletes. *)
(***************************************************************************)
C9_MoveThenDelete ==
    /\ last.op = "transform" =>
          /\ last.calls =
                <<[fn        |-> "sm64_surface_object_move",
                   id        |-> last.h,
                   transform |->
                      [position      |-> <<last.arg.position.x, last.arg.position.y,
                                           last.arg.position.z>>,
                       eulerRotation |-> <<last.arg.euler_rotation.x,
                                           last.arg.euler_rotation.y,
                                           last.arg.euler_rotation.z>>]]>>
          /\ surface[last.h].live
          /\ surface[last.h].self.id = last.h
          /\ last.h \in native.objects
    /\ last.op = "drop_surface" =>
          /\ last.calls = <<[fn |-> "sm64_surface_object_delete", id |-> last.h]>>
          /\ ~surface[last.h].live
          /\ last.h \notin native.objects
    /\ last.op # "transform" => CountCalls(last.calls, "sm64_surface_object_move") = 0
    /\ last.op # "drop_surface" =>
          CountCalls(last.calls, "sm64_surface_object_delete") = 0
    /\ native.objects = {surface[k].self.id : k \in LiveSurfaces}

C9_Witness ==
    /\ last.op = "transform"
    /\ last.arg.position = Point3(10, 0, 0)
    /\ last.calls[1].transform.position = <<10, 0, 0>>
    /\ last.calls[1].transform.eulerRotation = <<0, 90, 0>>

(***************************************************************************)
(* C10.  The bytes of a LevelTriangle, read as the native surface record   *)
(* (same size; type, force, terrain, 3x3 vertices, 16 bits each), give     *)
(* type = the number of kind, the same force, terrain = the number of the  *)
(* terrain tag, and the vertices row by row.                               *)
(***************************************************************************)
C10_CorrectRepr ==
    my_c_tri.done =>
       /\ my_c_tri.size = SizeOfSM64Surface
       /\ my_c_tri.surface.type_ = tri.kind
       /\ my_c_tri.surface.force = tri.force
       /\ my_c_tri.surface.terrain = Terrain[tri.terrain]
       /\ my_c_tri.surface.vertices =
             <<<<tri.vertices[1].x, tri.vertices[1].y, tri.vertices[1].z>>,
               <<tri.vertices[2].x, tri.vertices[2].y, tri.vertices[2].z>>,
               <<tri.vertices[3].x, tri.vertices[3].y, tri.vertices[3].z>>>>

C10_Witness ==
    /\ my_c_tri.done
    /\ tri.kind = 255
    /\ tri.force = -32768
    /\ tri.terrain = "Mask"
    /\ my_c_tri.surface.vertices[1] = <<-32768, 32767, -1>>

(***************************************************************************)
(* C11.  load_level_geometry(triangles) issues exactly one                 *)
(* sm64_static_surfaces_load, with the given slice and its length; after   *)
(* it the static collision set is exactly the given triangles whatever was *)
(* loaded before (replaced, not appended), and loading the slice that is   *)
(* already loaded leaves the static set as it was.                         *)
(***************************************************************************)
StaticSetOf(geometry) == [i \in 1..Len(geometry) |-> Transmute(geometry[i])]

C11_LoadReplaces ==
    last.op = "load_level_geometry" =>
        /\ Len(last.calls) = 1
        /\ last.calls[1].fn = "sm64_static_surfaces_load"
        /\ last.calls[1].surfaceArray = last.arg
        /\ last.calls[1].numSurfaces = Len(last.arg)
        /\ native.static = StaticSetOf(last.arg)
        /\ (last.result.before = StaticSetOf(last.arg)
               => native.static = last.result.before)

\* a one-triangle level loaded over a two-triangle one
C11_Witness ==
    /\ last.op = "load_level_geometry"
    /\ last.arg = <<TriA>>
    /\ last.result.before = StaticSetOf(<<TriA, TriB>>)
    /\ native.static = StaticSetOf(<<TriA>>)

\* the same level loaded twice in a row
C11_WitnessTwice ==
    /\ last.op = "load_level_geometry"
    /\ last.arg = <<TriA, TriB>>
    /\ last.result.before = StaticSetOf(<<TriA, TriB>>)

(***************************************************************************)
(* C12.  On every tick of a Mario handle, whatever ticks preceded it and   *)
(* whatever counts they returned (0 included), the count field of the      *)
(* buffers record passed to sm64_mario_tick is the full scratch capacity   *)
(* SM64_GEO_MAX_TRIANGLES (the u16 cast of the scratch array length,       *)
(* divided by 3), never the previous tick's count; and the count stored    *)
(* after the tick is the value the native side wrote into that field.      *)
(***************************************************************************)
C12_TickOffersFullCapacity ==
    last.op = "tick" =>
        /\ Len(last.calls) = 1
        /\ last.calls[1].fn = "sm64_mario_tick"
        /\ last.calls[1].numTrianglesUsed = SM64_GEO_MAX_TRIANGLES
        /\ last.calls[1].numTrianglesUsed =
              (Len(MarioGeometry_new.position) % U16) \div 3
        /\ mario[last.h].self.geometry.num_triangles = last.result.tris

\* a third tick at least: the last scratch entry was written by an earlier
\* tick that filled the arrays, the tick before this one returned 0, and
\* this one, offered the full capacity again, returned one triangle
C12_Witness ==
    /\ last.op = "tick"
    /\ last.result.before = 0
    /\ last.calls[1].numTrianglesUsed = SM64_GEO_MAX_TRIANGLES
    /\ last.result.tris = 1
    /\ LET geo == mario[last.h].self.geometry IN
        /\ geo.num_triangles = 1
        /\ geo.position[Len(geo.position)] # 0
        /\ geo.position[1] # geo.position[Len(geo.position)] - (Len(geo.position) - 1)

(***************************************************************************)
(* C13.  The scratch arrays and the live triangle count of a Mario handle  *)
(* change only during a tick of that same handle: every other operation    *)
(* (the accessors, load_level_geometry, create_mario,                      *)
(* create_dynamic_surface, transform, drops of other handles, a tick of a  *)
(* different handle) leaves them as they were; and the capacity of each    *)
(* scratch array is SM64_GEO_MAX_TRIANGLES * 3 for as long as the handle   *)
(* lives.                                                                  *)
(***************************************************************************)
ScratchCapacity(geo) ==
    {Len(geo.position), Len(geo.normal), Len(geo.color), Len(geo.uv)}

C13_CapacityKept ==
    \A k \in MarioIds :
        mario[k].live =>
            ScratchCapacity(mario[k].self.geometry) = {SM64_GEO_MAX_TRIANGLES * 3}

C13_OnlyOwnTick ==
    \A k \in MarioIds :
        (/\ mario[k].live
         /\ mario'[k].live
         /\ ~(last'.op = "tick" /\ last'.h = k))
        => mario'[k].self.geometry = mario[k].self.geometry

C13_ScratchFrame == [](C13_CapacityKept) /\ [][C13_OnlyOwnTick]_vars

\* handle 1 has just been ticked and holds one triangle of frame 2, while
\* handle 0 still holds the two triangles of frame 1 of its own tick
C13_Witness ==
    /\ last.op = "tick"
    /\ last.h = 1
    /\ mario[0].live
    /\ mario[1].live
    /\ mario[0].self.geometry.num_triangles = 2
    /\ mario[0].self.geometry.position[1] = Written(1, 1, 1)
    /\ mario[1].self.geometry.num_triangles = 1
    /\ mario[1].self.geometry.position[1] = Written(1, 2, 1)
    /\ C13_CapacityKept

(***************************************************************************)
(* C14.  After any sequence of public operations, every native call other  *)
(* than sm64_global_init and sm64_global_terminate (static-surface load,   *)
(* Mario create, tick and delete, object create, move and delete) is       *)
(* issued while the library is Live: after a global init and before the    *)
(* next global teardown.  None of these calls changes the library's        *)
(* state, so the state after the operation is the state the call was       *)
(* issued in.                                                              *)
(***************************************************************************)
GlobalCalls == {"sm64_global_init", "sm64_global_terminate"}

C14_CallsWhileLive ==
    \A i \in 1..Len(last.calls) :
        last.calls[i].fn \notin GlobalCalls => native.state = "Live"

====
